---- MODULE Spec2Model ----
(***************************************************************************)
(* Model of the AIM spatial grid and Green's-function table of EMRG.       *)
(*                                                                         *)
(* Positions, spacings and the product c*dt are integers (exact            *)
(* arithmetic); a 3-vector is a tuple <<x, y, z>> whose components 1..3    *)
(* are the source's components 0..2.  A size_t that was converted from a   *)
(* negative int is kept as that negative int and compared with ULess.      *)
(***************************************************************************)
EXTENDS Integers, Sequences, FiniteSets, TLC

\* ---- bounds of the model ------------------------------------------------
MaxCoord == 1      \* x coordinate of an emitter lies in -MaxCoord..MaxCoord
MaxDots == 2       \* emitters in the collection
MaxSpacing == 2    \* box size per axis lies in 1..MaxSpacing
MaxPad == 1        \* padding lies in -1..MaxPad
MaxOrder == 1      \* expansion / interpolation order lies in 0..MaxOrder
MaxC == 2          \* propagation speed c lies in 1..MaxC
MaxStep == 2       \* integrator steps taken, and step argument of evaluate
AimMaxDots == 2    \* emitters in the collection an AimInteraction is built on

Axes == 1..3

\* Emitters on the x axis, and two emitters off it.
Positions == {<<x, 0, 0>> : x \in -MaxCoord..MaxCoord} \cup {<<-1, 1, -1>>, <<1, 1, -1>>}

\* Cubic boxes, and unit boxes stretched along the third axis.
Spacings == {<<a, a, a>> : a \in 1..MaxSpacing} \cup {<<1, 1, b>> : b \in 1..MaxSpacing}

\* The fixture of the tests: unit spacing, c = dt = 1.
FixtureSpacings == {<<1, 1, 1>>}
FixtureCs == {1}
Dts == {1}

Pads == -1..MaxPad

\* A QuantumDot: its position, and id standing for its remaining fields.
QuantumDot(p, i) == [pos |-> p, id |-> i]

DotVectors(n) ==
  UNION {{[i \in 1..k |-> QuantumDot(ps[i], i)] : ps \in [1..k -> Positions]}
         : k \in 0..n}

VARIABLES dots, orig_dots, grid, ret, aim, results, history, now,
          last_call, prev_call

vars == <<dots, orig_dots, grid, ret, aim, results, history, now,
          last_call, prev_call>>

\* ---- unsigned (size_t) arithmetic on small values -----------------------
\* a < b for two size_t values, each kept as the int it was converted from.
ULess(a, b) == IF (a < 0) = (b < 0) THEN a < b ELSE b < 0

\* idx / d and idx % d for a size_t idx >= 0 and an int d converted to
\* size_t: a negative d becomes 2^64 + d, which exceeds every small idx.
UDiv(idx, d) == IF d > 0 THEN idx \div d ELSE 0
UMod(idx, d) == IF d > 0 THEN idx % d ELSE idx

Min2(a, b) == IF a < b THEN a ELSE b
Max2(a, b) == IF a > b THEN a ELSE b

\* ---- Grid (aim_interaction.cpp) -----------------------------------------
grid_coordinate(spacing, coord) == [i \in Axes |-> coord[i] \div spacing[i]]

RECURSIVE bounds_loop(_, _, _)
bounds_loop(spacing, ds, b) ==
  IF ds = <<>> THEN b
  ELSE LET grid_coord == grid_coordinate(spacing, Head(ds).pos)
       IN bounds_loop(spacing, Tail(ds),
                      [min |-> [i \in Axes |-> Min2(grid_coord[i], b.min[i])],
                       max |-> [i \in Axes |-> Max2(grid_coord[i], b.max[i])]])

calculate_bounds_no_plus_one(spacing, ds, padding) ==
  LET b == bounds_loop(spacing, ds, [min |-> <<0, 0, 0>>, max |-> <<0, 0, 0>>])
  IN [min |-> [i \in Axes |-> b.min[i] - padding],
      max |-> [i \in Axes |-> b.max[i] + padding]]

calculate_bounds(spacing, ds, padding) ==
  LET b == bounds_loop(spacing, ds, [min |-> <<0, 0, 0>>, max |-> <<0, 0, 0>>])
  IN [min |-> [i \in Axes |-> b.min[i] - padding],
      max |-> [i \in Axes |-> b.max[i] + padding + 1]]

coord_to_idx(g, coord) ==
  LET shifted == [i \in Axes |-> coord[i] - g.bounds.min[i]]
  IN shifted[1] + g.dimensions[1] * (shifted[2] + g.dimensions[2] * shifted[3])

idx_to_coord(g, idx) ==
  LET nxny == g.dimensions[1] * g.dimensions[2]
      z == UDiv(idx, nxny)
      idx2 == idx - z * nxny
      y == UDiv(idx2, g.dimensions[1])
      x == UMod(idx2, g.dimensions[1])
  IN <<x, y, z>>

spatial_coord_of_box(g, box_id) ==
  LET r == [i \in Axes |-> idx_to_coord(g, box_id)[i] * g.spacing[i]]
  IN [i \in Axes |-> r[i] + g.bounds.min[i]]

\* 0, 1, -1, 2, -2, ...
grid_sequence(n) == IF n % 2 = 1 THEN (n + 1) \div 2 ELSE -(n \div 2)

expansion_box_indices(g, pos, order) ==
  LET origin == grid_coordinate(g.spacing, pos)
      n == order + 1
  IN [k \in 1..(n * n * n) |->
        LET nx == (k - 1) \div (n * n)
            ny == ((k - 1) \div n) % n
            nz == (k - 1) % n
            delta == <<grid_sequence(nx), grid_sequence(ny), grid_sequence(nz)>>
        IN coord_to_idx(g, [i \in Axes |-> origin[i] + delta[i]])]

\* The key the comparator and IsInBox compute for a dot.
box_idx_of(g, qd) == coord_to_idx(g, grid_coordinate(g.spacing, qd.pos))

\* std::stable_sort with grid_comparitor: each element goes behind every
\* element that does not compare greater than it.
RECURSIVE stable_insert(_, _, _)
stable_insert(g, sorted, qd) ==
  IF sorted = <<>> THEN <<qd>>
  ELSE IF ULess(box_idx_of(g, qd), box_idx_of(g, Head(sorted)))
       THEN <<qd>> \o sorted
       ELSE <<Head(sorted)>> \o stable_insert(g, Tail(sorted), qd)

RECURSIVE stable_sort(_, _, _)
stable_sort(g, ds, acc) ==
  IF ds = <<>> THEN acc
  ELSE stable_sort(g, Tail(ds), stable_insert(g, acc, Head(ds)))

sort_points_on_boxidx(g, ds) == stable_sort(g, ds, <<>>)

\* Iterators are positions 1..Len(ds)+1, Len(ds)+1 being end().
find_if(g, ds, from, box_idx, wanted) ==
  LET hits == {k \in from..Len(ds) : (box_idx_of(g, ds[k]) = box_idx) = wanted}
  IN IF hits = {} THEN Len(ds) + 1
     ELSE CHOOSE k \in hits : \A j \in hits : k <= j

map_points_to_boxes(g, ds) ==
  [box_idx \in 0..(g.num_boxes - 1) |->
     LET begin == find_if(g, ds, 1, box_idx, TRUE)
         end == find_if(g, ds, begin, box_idx, FALSE)
     IN <<begin, end>>]

\* The constructor: the grid it leaves and the shared collection after it.
\* boxes.resize(n) with a negative n throws std::length_error.
Grid(spacing, ds, pad) ==
  LET b == calculate_bounds(spacing, ds, pad)
      dims == [i \in Axes |-> b.max[i] - b.min[i]]
      g0 == [status |-> "constructed", spacing |-> spacing, padding |-> pad,
             bounds |-> b, dimensions |-> dims,
             num_boxes |-> dims[1] * dims[2] * dims[3],
             max_diagonal_sq |-> (dims[1] * spacing[1]) * (dims[1] * spacing[1])
                               + (dims[2] * spacing[2]) * (dims[2] * spacing[2])
                               + (dims[3] * spacing[3]) * (dims[3] * spacing[3]),
             boxes |-> <<>>]
  IN IF g0.num_boxes < 0
     THEN [grid |-> [g0 EXCEPT !.status = "length_error"], dots |-> ds]
     ELSE LET sorted == sort_points_on_boxidx(g0, ds)
          IN [grid |-> [g0 EXCEPT !.boxes = map_points_to_boxes(g0, sorted)],
              dots |-> sorted]

\* ---- Grid (AIM/grid.h): the inline geometry routines --------------------
\* cast<int> truncates toward zero.
grid_coordinate_h(spacing, coord) ==
  [i \in Axes |-> IF coord[i] >= 0 THEN coord[i] \div spacing[i]
                  ELSE -((-coord[i]) \div spacing[i])]

coord_to_idx_h(g, coord) ==
  coord[3] + g.dimensions[3] * (coord[2] + g.dimensions[2] * coord[1])

idx_to_coord_h(g, idx) ==
  LET nynz == g.dimensions[2] * g.dimensions[3]
      x == UDiv(idx, nynz)
      idx2 == idx - x * nynz
      y == UDiv(idx2, g.dimensions[3])
      z == UMod(idx2, g.dimensions[3])
  IN <<x, y, z>>

associated_grid_index_h(g, coord) ==
  LET grid_coord == grid_coordinate_h(g.spacing, coord)
  IN coord_to_idx_h(g, [i \in Axes |-> grid_coord[i] - g.bounds.min[i]])

spatial_coord_of_box_h(g, box_id) ==
  LET dr == [i \in Axes |-> idx_to_coord_h(g, box_id)[i] + g.bounds.min[i]]
  IN [i \in Axes |-> dr[i] * g.spacing[i]]

\* ceil(max_diagonal / (c * dt)): the least n with n * c * dt >= max_diagonal.
max_transit_steps(g, c, dt) ==
  CHOOSE n \in 0..(g.max_diagonal_sq + 1) :
    /\ n * n * c * c * dt * dt >= g.max_diagonal_sq
    /\ \A m \in 0..(n - 1) : m * m * c * c * dt * dt < g.max_diagonal_sq

\* ---- AimInteraction (aim_interaction.cpp) -------------------------------
\* A table value: num is 0 or 1 for those exact numbers, and -1 for the
\* non-zero Lagrange weight of stencil index idx at the fractional part of
\* sqrt(frac[1]) / frac[2].
Zero == [num |-> 0, frac |-> <<0, 1>>, idx |-> 0]
One == [num |-> 1, frac |-> <<0, 1>>, idx |-> 0]

\* floor(sqrt(dsq) / cdt)
FloorArg(dsq, cdt) ==
  CHOOSE n \in 0..dsq : /\ n * n * cdt * cdt <= dsq
                        /\ (n + 1) * (n + 1) * cdt * cdt > dsq

\* Integer part and fractional remainder of arg = sqrt(dsq) / cdt.
split_double(dsq, cdt) ==
  LET n == FloorArg(dsq, cdt)
  IN <<n, IF n * n * cdt * cdt = dsq THEN <<0, 1>> ELSE <<dsq, cdt>>>>

\* evaluations[0][basis_id] of the uniform Lagrange set on the nodes
\* 0..order at x in [0, 1): at x = 0 it is 1 for node 0 and 0 for the
\* others, between the nodes it is not zero.
evaluate_derivative_table_at_x(x, basis_id) ==
  IF x = <<0, 1>> THEN (IF basis_id = 0 THEN One ELSE Zero)
  ELSE [num |-> -1, frac |-> x, idx |-> basis_id]

\* extent_range(1, max_transit_steps) is the half-open index range
\* [1, max_transit_steps).
TimeLayers(mts) == 1..(mts - 1)

GmatrixDomain(g, mts) ==
  {<<t, nx, ny, nz>> : t \in TimeLayers(mts),
                       nx \in 0..(g.dimensions[1] - 1),
                       ny \in 0..(g.dimensions[2] - 1),
                       nz \in 0..(2 * g.dimensions[3] - 1)}

mirror_index_off_by_one(g, nz) == 2 * g.dimensions[3] - nz - 1

mirror_index(g, nz) == 2 * g.dimensions[3] - nz

\* |dr|^2 for dr = spatial_coord_of_box(box_idx) - spatial_coord_of_box(0)
dr_norm_sq(g, box_idx) ==
  LET a == spatial_coord_of_box(g, box_idx)
      o == spatial_coord_of_box(g, 0)
  IN (a[1] - o[1]) * (a[1] - o[1]) + (a[2] - o[2]) * (a[2] - o[2])
     + (a[3] - o[3]) * (a[3] - o[3])

\* What the three spatial loops compute for the offset n = (nx, ny, nz)
\* before the time loop: box_idx and split_arg of arg = |dr| / (c * dt).
offset_entry(g, n, c, dt) ==
  LET box_idx == coord_to_idx(g, n)
  IN [box_idx |-> box_idx,
      split_arg |-> IF box_idx = 0 THEN <<0, <<0, 1>>>>
                    ELSE split_double(dr_norm_sq(g, box_idx), c * dt)]

\* ceil(time_idx - arg) = time_idx - floor(arg)
polynomial_idx(entry, time_idx) == time_idx - entry.split_arg[1]

\* The loop body at an offset with this entry, at time_idx, assigns to the
\* table.
Assigns(entry, shape0, time_idx, interp_order) ==
  /\ entry.box_idx # 0
  /\ time_idx \in 1..(shape0 - 1)
  /\ 0 <= polynomial_idx(entry, time_idx)
  /\ polynomial_idx(entry, time_idx) <= interp_order

fill_gmatrix_table(gmatrix_table, g, interp_order, c, dt) ==
  LET shape0 == Cardinality({e[1] : e \in DOMAIN gmatrix_table})
      entries == [n \in {<<nx, ny, nz>> : nx \in 0..(g.dimensions[1] - 1),
                                          ny \in 0..(g.dimensions[2] - 1),
                                          nz \in 0..(g.dimensions[3] - 1)}
                    |-> offset_entry(g, n, c, dt)]
      writers(e) ==
        {nz \in 0..(g.dimensions[3] - 1) :
           /\ \/ nz = e[4]
              \/ nz # 0 /\ mirror_index(g, nz) = e[4]
           /\ Assigns(entries[<<e[2], e[3], nz>>], shape0, e[1], interp_order)}
      last(e) == CHOOSE nz \in writers(e) : \A m \in writers(e) : m <= nz
      value(e, nz) ==
        LET entry == entries[<<e[2], e[3], nz>>]
        IN evaluate_derivative_table_at_x(entry.split_arg[2],
                                          polynomial_idx(entry, e[1]))
  IN [e \in DOMAIN gmatrix_table |->
        IF writers(e) = {} THEN gmatrix_table[e] ELSE value(e, last(e))]

\* std::fill(g_mat, 0); fill_gmatrix_table(g_mat); the FFT of g_mat is not
\* modelled.
fill_fourier_table(g, interp_order, c, dt) ==
  LET mts == max_transit_steps(g, c, dt)
      g_mat == [e \in GmatrixDomain(g, mts) |-> Zero]
  IN fill_gmatrix_table(g_mat, g, interp_order, c, dt)

evaluate_accumulate(res, step) == [d \in DOMAIN res |-> (res[d] + step + 1) % 4]

evaluate(res, step) == [d \in DOMAIN res |-> 0]

NoGrid ==
  [status |-> "none", spacing |-> <<1, 1, 1>>, padding |-> 0,
   bounds |-> [min |-> <<0, 0, 0>>, max |-> <<0, 0, 0>>],
   dimensions |-> <<0, 0, 0>>, num_boxes |-> 0, max_diagonal_sq |-> 0,
   boxes |-> <<>>]

NoRet == [op |-> "none", order |-> 0, val |-> <<>>]
NoAim == [status |-> "none"]
NoCall == [step |-> -1, history |-> <<>>, result |-> <<>>]

Init ==
  /\ dots \in DotVectors(MaxDots)
  /\ orig_dots = dots
  /\ grid = NoGrid
  /\ ret = NoRet
  /\ aim = NoAim
  /\ results = <<>>
  /\ history = <<>>
  /\ now = 0
  /\ last_call = NoCall
  /\ prev_call = NoCall

NewGrid(PadSet) ==
  /\ grid.status = "none"
  /\ \E spacing \in Spacings, pad \in PadSet :
       LET c == Grid(spacing, dots, pad)
       IN /\ grid' = c.grid
          /\ dots' = c.dots
  /\ UNCHANGED <<orig_dots, ret, aim, results, history, now, last_call, prev_call>>

ExpansionBoxIndices ==
  /\ grid.status = "constructed"
  /\ \E d \in 1..Len(dots), order \in 0..MaxOrder :
       ret' = [op |-> "expansion_box_indices", order |-> order,
               val |-> expansion_box_indices(grid, dots[d].pos, order)]
  /\ UNCHANGED <<dots, orig_dots, grid, aim, results, history, now,
                 last_call, prev_call>>

\* ---- properties of the grid ---------------------------------------------
Constructed == grid.status = "constructed"

GridCoords(g) ==
  {<<x, y, z>> : x \in g.bounds.min[1]..(g.bounds.max[1] - 1),
                 y \in g.bounds.min[2]..(g.bounds.max[2] - 1),
                 z \in g.bounds.min[3]..(g.bounds.max[3] - 1)}

BoxIds(g) == 0..(g.num_boxes - 1)

DotCoord(k) == grid_coordinate(grid.spacing, dots[k].pos)

\* C1: on every constructed grid coord_to_idx and idx_to_coord are inverses:
\* idx_to_coord(coord_to_idx(c)) = c for every coordinate c inside the
\* bounds, and coord_to_idx(idx_to_coord(i)) = i for every box index i.
C1_Bijection ==
  Constructed =>
    /\ \A c \in GridCoords(grid) : idx_to_coord(grid, coord_to_idx(grid, c)) = c
    /\ \A i \in BoxIds(grid) : coord_to_idx(grid, idx_to_coord(grid, i)) = i

\* C2: after construction with padding >= 0 every emitter's grid coordinate
\* lies in [bounds.min, bounds.max) on each axis.
C2_Containment ==
  (Constructed /\ grid.padding >= 0) =>
    \A k \in 1..Len(dots) : \A i \in Axes :
      /\ grid.bounds.min[i] <= DotCoord(k)[i]
      /\ DotCoord(k)[i] < grid.bounds.max[i]

\* An emitter sits in the topmost box of some axis of a padded-by-zero grid.
C2_Witness ==
  /\ Constructed
  /\ grid.padding = 0
  /\ Len(dots) = MaxDots
  /\ \E k \in 1..Len(dots) : \E i \in Axes :
       /\ DotCoord(k)[i] = grid.bounds.max[i] - 1
       /\ DotCoord(k)[i] > 0

\* C3: for a non-empty collection bounds.min is the componentwise minimum of
\* the emitters' grid coordinates minus padding and bounds.max the
\* componentwise maximum plus padding + 1.
C3_BoundsAreMinMax ==
  (Constructed /\ Len(dots) > 0) =>
    \A i \in Axes :
      /\ \A k \in 1..Len(dots) : grid.bounds.min[i] + grid.padding <= DotCoord(k)[i]
      /\ \E k \in 1..Len(dots) : grid.bounds.min[i] + grid.padding = DotCoord(k)[i]
      /\ \A k \in 1..Len(dots) : grid.bounds.max[i] - grid.padding - 1 >= DotCoord(k)[i]
      /\ \E k \in 1..Len(dots) : grid.bounds.max[i] - grid.padding - 1 = DotCoord(k)[i]

\* The box index the grid associates with a position (the key of the sort
\* and of the box map).
associated_grid_index(g, coord) == coord_to_idx(g, grid_coordinate(g.spacing, coord))

OnGridPoint(g, pos) == \A i \in Axes : pos[i] % g.spacing[i] = 0

\* C4: the index associated with spatial_coord_of_box(i) is i for every box
\* index i, and an emitter on a grid point sits at spatial_coord_of_box of
\* the box that contains it.
C4_InverseConsistent ==
  Constructed =>
    /\ \A i \in BoxIds(grid) :
         associated_grid_index(grid, spatial_coord_of_box(grid, i)) = i
    /\ \A k \in 1..Len(dots) :
         OnGridPoint(grid, dots[k].pos) =>
           spatial_coord_of_box(grid, associated_grid_index(grid, dots[k].pos))
             = dots[k].pos

\* The same statement for the inline routines of AIM/grid.h.
HeaderInverseConsistent ==
  (Constructed /\ grid.padding >= 0) =>
    /\ \A i \in BoxIds(grid) :
         associated_grid_index_h(grid, spatial_coord_of_box_h(grid, i)) = i
    /\ \A k \in 1..Len(dots) :
         OnGridPoint(grid, dots[k].pos) =>
           spatial_coord_of_box_h(grid, associated_grid_index_h(grid, dots[k].pos))
             = dots[k].pos

\* C7: construction fails with InvalidConfiguration whenever a dimension is
\* <= 0, so no constructed grid has a non-positive dimension.
C7_InvalidConfiguration ==
  /\ Constructed => \A i \in Axes : grid.dimensions[i] > 0
  /\ (grid.status # "none" /\ \E i \in Axes : grid.dimensions[i] <= 0)
       => grid.status = "InvalidConfiguration"

InRange(g, idx) == idx >= 0 /\ idx < g.num_boxes

\* C8: expansion_box_indices returns (order + 1)^3 indices, all of them in
\* [0, num_gridpoints).
C8_StencilInBounds ==
  ret.op = "expansion_box_indices" =>
    /\ Len(ret.val) = (ret.order + 1) * (ret.order + 1) * (ret.order + 1)
    /\ \A k \in 1..Len(ret.val) : InRange(grid, ret.val[k])

RangeOf(b) == {k \in 1..Len(dots) : grid.boxes[b][1] <= k /\ k < grid.boxes[b][2]}

\* C9: after construction the collection is a stable reordering of the
\* original sorted by non-decreasing box index, boxes[b] holds exactly the
\* emitters of box b, and the ranges of all boxes partition the collection.
C9_SortedPartition ==
  Constructed =>
    /\ Len(dots) = Len(orig_dots)
    /\ {dots[k] : k \in 1..Len(dots)} = {orig_dots[k] : k \in 1..Len(orig_dots)}
    /\ \A j \in 1..Len(dots) : \A k \in 1..Len(dots) :
         j < k => /\ ~ULess(box_idx_of(grid, dots[k]), box_idx_of(grid, dots[j]))
                  /\ box_idx_of(grid, dots[j]) = box_idx_of(grid, dots[k])
                       => dots[j].id < dots[k].id
    /\ \A b \in BoxIds(grid) :
         RangeOf(b) = {k \in 1..Len(dots) : box_idx_of(grid, dots[k]) = b}
    /\ \A k \in 1..Len(dots) :
         Cardinality({b \in BoxIds(grid) : k \in RangeOf(b)}) = 1

\* AimInteraction(dots, spacing, interp_order, c, dt): its member grid is
\* Grid(spacing, dots) = Grid(spacing, dots, 0); results is allocated but
\* not yet assigned.
NewAimInteraction(SpacingSet, CSet) ==
  /\ aim.status = "none"
  /\ \E spacing \in SpacingSet, interp_order \in 0..MaxOrder,
        c \in CSet, dt \in Dts :
       LET made == Grid(spacing, dots, 0)
           constructed ==
             [status |-> "constructed", grid |-> made.grid,
              interp_order |-> interp_order, c |-> c, dt |-> dt,
              max_transit_steps |-> max_transit_steps(made.grid, c, dt),
              gmatrix |-> fill_fourier_table(made.grid, interp_order, c, dt)]
       IN /\ dots' = made.dots
          /\ aim' = constructed
          /\ \E junk \in 0..1 : results' = [d \in 1..Len(dots) |-> junk]
  /\ UNCHANGED <<orig_dots, grid, ret, history, now, last_call, prev_call>>

Evaluate ==
  /\ aim.status = "constructed"
  /\ \E step \in 0..MaxStep :
       /\ results' = evaluate(results, step)
       /\ prev_call' = last_call
       /\ last_call' = [step |-> step, history |-> history, result |-> results']
  /\ UNCHANGED <<dots, orig_dots, grid, ret, aim, history, now>>

\* Integrator::step: commits the solution of the next step to the history
\* and advances now.
Step ==
  /\ aim.status = "constructed"
  /\ now < MaxStep
  /\ now' = now + 1
  /\ history' = Append(history, now + 1)
  /\ UNCHANGED <<dots, orig_dots, grid, ret, aim, results, last_call, prev_call>>

InitAim ==
  /\ Init
  /\ Len(dots) <= AimMaxDots

\* ---- properties of the interaction ---------------------------------------
AimConstructed == aim.status = "constructed"

Offsets(g) ==
  {<<nx, ny, nz>> : nx \in 0..(g.dimensions[1] - 1),
                    ny \in 0..(g.dimensions[2] - 1),
                    nz \in 0..(g.dimensions[3] - 1)}

\* C5: in the table built by fill_gmatrix_table, for every stored time shift
\* t, every (nx, ny) and every k with 0 < k < dimension of the third axis,
\* gmatrix[t][nx][ny][k] = gmatrix[t][nx][ny][2 * dimension - k].
C5_CirculantSymmetry ==
  AimConstructed =>
    \A t \in TimeLayers(aim.max_transit_steps) : \A n \in Offsets(aim.grid) :
      n[3] # 0 =>
        aim.gmatrix[<<t, n[1], n[2], n[3]>>]
          = aim.gmatrix[<<t, n[1], n[2], 2 * aim.grid.dimensions[3] - n[3]>>]

\* A non-zero weight was stored at an offset k > 0 of the third axis.
C5_Witness ==
  /\ AimConstructed
  /\ \E t \in TimeLayers(aim.max_transit_steps) : \E n \in Offsets(aim.grid) :
       /\ n[3] # 0
       /\ aim.gmatrix[<<t, n[1], n[2], n[3]>>] # Zero

SameCallTwice ==
  /\ prev_call.step >= 0
  /\ prev_call.step = last_call.step
  /\ prev_call.history = last_call.history

\* C6: two calls of evaluate(k) in a row with no history mutation between
\* them return identical results, and a call leaves the history unchanged.
C6_Idempotent ==
  /\ [](SameCallTwice => prev_call.result = last_call.result)
  /\ [][(last_call' # last_call \/ results' # results) => history' = history]_vars

\* evaluate(k) was called twice in a row after a step of the integrator, on
\* a non-empty collection.
C6_Witness ==
  /\ SameCallTwice
  /\ now > 0
  /\ last_call.history = history
  /\ Len(last_call.result) > 0

\* C10: on every grid gmatrix[t][0][0][0] = 0 for every stored time shift t,
\* and the test box_idx == 0 skips no offset other than (0, 0, 0).
C10_ZeroOffsetExcluded ==
  AimConstructed =>
    /\ \A t \in TimeLayers(aim.max_transit_steps) :
         aim.gmatrix[<<t, 0, 0, 0>>] = Zero
    /\ \A n \in Offsets(aim.grid) :
         n # <<0, 0, 0>> => coord_to_idx(aim.grid, n) # 0

\* The time shifts the table has a layer for.
StoredLayers == {e[1] : e \in DOMAIN aim.gmatrix}

\* The offset n contributes at time shift t: 0 <= ceil(t - arg) <= interp_order,
\* with arg the value fill_gmatrix_table computes for n.
Contributes(n, t) ==
  LET entry == offset_entry(aim.grid, n, aim.c, aim.dt)
  IN /\ 0 <= polynomial_idx(entry, t)
     /\ polynomial_idx(entry, t) <= aim.interp_order

\* The Lagrange weight of stencil index ceil(t - arg) at the fractional part
\* of arg.
LagrangeWeight(n, t) ==
  LET entry == offset_entry(aim.grid, n, aim.c, aim.dt)
  IN evaluate_derivative_table_at_x(entry.split_arg[2], polynomial_idx(entry, t))

\* C11: the table has a layer for every time shift t in 1..max_transit_steps;
\* for every non-zero offset n of the first half of the axes and every such t
\* with 0 <= ceil(t - arg) <= interp_order the entry at (t, n) is the Lagrange
\* weight of stencil index ceil(t - arg), and every other entry at an offset
\* of the first half is zero.
C11_EveryTimeShiftFilled ==
  AimConstructed =>
    /\ StoredLayers = 1..aim.max_transit_steps
    /\ \A t \in 1..aim.max_transit_steps : \A n \in Offsets(aim.grid) :
         /\ <<t, n[1], n[2], n[3]>> \in DOMAIN aim.gmatrix
         /\ aim.gmatrix[<<t, n[1], n[2], n[3]>>]
              = IF n # <<0, 0, 0>> /\ Contributes(n, t)
                  THEN LagrangeWeight(n, t)
                  ELSE Zero

\* What the construction does instead: extent_range(1, max_transit_steps) is
\* half open, so the layers are 1..max_transit_steps - 1, and the loop bound
\* shape()[0] leaves the last of them as std::fill set it.
GmatrixLayersAsBuilt ==
  AimConstructed =>
    /\ StoredLayers = 1..(aim.max_transit_steps - 1)
    /\ aim.max_transit_steps >= 2 =>
         \A e \in DOMAIN aim.gmatrix :
           e[1] = aim.max_transit_steps - 1 => aim.gmatrix[e] = Zero

Next ==NewGrid(Pads) \/ ExpansionBoxIndices

NextNonNegPad == NewGrid(0..MaxPad) \/ ExpansionBoxIndices

NextAim == NewAimInteraction(Spacings, 1..MaxC)

NextEval == NewAimInteraction(FixtureSpacings, FixtureCs) \/ Evaluate \/ Step

Spec == Init /\ [][Next]_vars

SpecNonNegPad == Init /\ [][NextNonNegPad]_vars

SpecAim == InitAim /\ [][NextAim]_vars

SpecEval == InitAim /\ [][NextEval]_vars
====
